---- MODULE Spec2Model ----
(***************************************************************************)
(* Harvesters of ckanext-datapress_harvester: the gather and import stages *)
(* of the DataPress, Redbridge, SODA and Nomis harvesters, the extras      *)
(* helpers of util/__init__.py and the organisation mapping mixin, as a    *)
(* state machine over the catalog they write to.                           *)
(***************************************************************************)
EXTENDS Integers, Sequences, FiniteSets, TLC

\* ---------------------------------------------------------------- bounds
MaxId == 2        \* dataset ids known upstream or locally: 1..MaxId
MaxLen == 2       \* longest upstream listing returned to one gather run
MaxVer == 2       \* upstream content versions (modification stamp / content)
MaxClock == 2     \* import-stage executions followed in one behaviour

Ids == 1..MaxId
Vers == 1..MaxVer

\* ------------------------------------------------------- values and keys
\* Python's None and a key that a dict does not hold.
NoneVal == "None"
Missing == "<missing>"

Sources == {"datapress", "redbridge", "soda", "nomis"}

\* An entry of package["extras"].
Extra(k, v) == [key |-> k, value |-> v]

\* The stamp of version v as an extras value.
Stamp(v) == IF v = 1 THEN "t1" ELSE IF v = 2 THEN "t2" ELSE IF v = 3 THEN "t3" ELSE "t4"

\* md5 of the content of version v, as an extras value.
Digest(v) == IF v = 1 THEN "h1" ELSE IF v = 2 THEN "h2" ELSE IF v = 3 THEN "h3" ELSE "h4"

\* ------------------------------------------------ util/__init__.py helpers
IndexOfKey(extras, key) ==
    CHOOSE i \in 1..Len(extras) :
        /\ extras[i].key = key
        /\ \A j \in 1..(i - 1) : extras[j].key # key

HasKey(extras, key) == \E i \in 1..Len(extras) : extras[i].key = key

remove_extras(extras, keys) == SelectSeq(extras, LAMBDA e : e.key \notin keys)

get_package_extra_val(extras, key) ==
    IF HasKey(extras, key) THEN extras[IndexOfKey(extras, key)].value ELSE NoneVal

upsert_package_extra(extras, key, val) ==
    IF HasKey(extras, key)
    THEN [extras EXCEPT ![IndexOfKey(extras, key)].value = val]
    ELSE Append(extras, Extra(key, val))

remove_from_extras ==
    { "upstream_metadata_created", "upstream_metadata_modified", "upstream_url",
      "harvest_object_id", "harvest_source_id", "harvest_source_title",
      "london_smallest_geography", "update_frequency", "notes_with_markup" }

RECURSIVE UpsertAll(_, _)
UpsertAll(extras, todo) ==
    IF todo = << >> THEN extras
    ELSE UpsertAll(upsert_package_extra(extras, Head(todo).key, Head(todo).value), Tail(todo))

\* extras_to_transfer: the stored extras minus the volatile keys, or nothing when
\* package_show raised (package absent, or any other failure of the lookup).
ExtrasToTransfer(existing, lookup_ok) ==
    IF lookup_ok /\ existing.exists
    THEN remove_extras(existing.extras, remove_from_extras)
    ELSE << >>

\* A merge that transfers nothing from the stored package.
add_existing_extras_none(extras, existing, lookup_ok) == extras

add_existing_extras(extras, existing, lookup_ok) ==
    UpsertAll(extras, ExtrasToTransfer(existing, lookup_ok))

add_default_extras(extras) ==
    LET e1 == IF get_package_extra_val(extras, "data_quality") = NoneVal
              THEN Append(extras, Extra("data_quality", ""))
              ELSE extras
    IN  IF get_package_extra_val(e1, "dataset_boost") = NoneVal
        THEN Append(e1, Extra("dataset_boost", "1.0"))
        ELSE e1

\* ------------------------------------------------------------ the catalog
\* A stored package: its extras, its metadata_modified, the version of the
\* upstream content it was last written from (0: none the harvester knows of)
\* and its lifecycle state, "active" or "deleted".
NoPkg ==
    [exists |-> FALSE, extras |-> << >>, metadata_modified |-> 0, ver |-> 0,
     state |-> Missing]

\* The ids package_search holds for the harvest source: the search index lists
\* the active datasets.
get_harvested_dataset_ids(cat) ==
    { i \in DOMAIN cat : cat[i].exists /\ cat[i].state = "active" }

\* ------------------------------------------------------------- the state
VARIABLES
    kind,           \* the harvester type of the harvest source
    catalog,        \* dataset id -> the stored package, or NoPkg
    orgs,           \* names of the organisations the catalog holds
    objects,        \* HarvestObjects of the current job, in creation order
    done,           \* how many of them the import stage has consumed
    clock,          \* import-stage executions so far (the time of a write)
    op,             \* the stage that ran last
    raised,         \* it let an exception escape
    result,         \* what it returned
    calls,          \* the catalog calls it made, in order
    fault,          \* import: what failed among the collaborators during the call
    request,        \* gather: how the first request of the upstream listing ended
    gather_errors,  \* the _save_gather_error calls it made
    object_errors,  \* the _save_object_error calls it made
    fetched,        \* gather: the upstream records retrieved (pkg_dicts)
    upstream,       \* gather: the complete upstream listing
    local_ids,      \* gather: the ids get_harvested_dataset_ids returned
    item,           \* import: the HarvestObject content processed
    before,         \* import: the stored package of its id before the stage ran
    config,         \* the harvest source configuration the stage read
    arg,            \* a helper of util called on its own: its argument
    ret,            \* and what it returned
    call,           \* get_mapped_organization on its own: the arguments of its calls
    harvests,       \* each harvest calling it: where it is and what it has got
    created,        \* the dicts passed to organization_create, in order
    overlapped      \* a call looked up while another was about to create

orgvars == << call, harvests, created, overlapped >>

vars == << kind, catalog, orgs, objects, done, clock, op, raised, result, calls,
           fault, request, gather_errors, object_errors, fetched, upstream, local_ids,
           item, before, config, arg, ret, call, harvests, created, overlapped >>

\* ------------------------------------------------------ upstream records
\* One record of an upstream listing: its id, the DataPress private flag and the
\* version of its content (which fixes modification stamp and content hash).
Records(k) ==
    [id : Ids, private : IF k = "datapress" THEN BOOLEAN ELSE {FALSE}, ver : Vers]

BoundedSeq(S, n) == UNION { [1..m -> S] : m \in 0..n }

Listings(k) == BoundedSeq(Records(k), MaxLen)

IdsOf(recs) == { recs[i].id : i \in 1..Len(recs) }

\* The subsequence of listing at the positions not in lost.
RECURSIVE Without(_, _, _)
Without(listing, lost, i) ==
    IF i > Len(listing) THEN << >>
    ELSE (IF i \in lost THEN << >> ELSE << listing[i] >>) \o Without(listing, lost, i + 1)

\* ------------------------------------------------------------- work items
\* json.dumps of a package dict with its "action" key (Missing: no such key).
Item(p, action) == [id |-> p.id, action |-> action, private |-> p.private, ver |-> p.ver]

\* json.dumps({"id": i, "action": "delete"}); ver 0: no content fields at all.
DeleteItem(i) == [id |-> i, action |-> "delete", private |-> FALSE, ver |-> 0]

RECURSIVE DeleteItems(_)
DeleteItems(ids) ==
    IF ids = {} THEN << >>
    ELSE LET i == CHOOSE x \in ids : \A y \in ids : x <= y
         IN  << DeleteItem(i) >> \o DeleteItems(ids \ {i})

\* A diff that forgets the subtraction: every local dataset is to be deleted.
to_be_deleted_all(existing_dataset_ids, fetched_ids) == existing_dataset_ids

\* The datasets present locally but not upstream.
to_be_deleted(existing_dataset_ids, fetched_ids) == existing_dataset_ids \ fetched_ids

GatherOut(r, res, errs, objs) ==
    [raised |-> r, result |-> res, gather_errors |-> errs, objects |-> objs]

\* ------------------------------------------------------- DataPress gather
\* A loop over pkg_dicts that skips nothing.
DataPressUpsertItems_all(pkg_dicts, package_ids, harvest_private_datasets) ==
    [n \in 1..Len(pkg_dicts) |-> Item(pkg_dicts[n], "upsert")]

\* The loop over pkg_dicts: private datasets and repeated ids are skipped.
RECURSIVE DataPressUpsertItems(_, _, _)
DataPressUpsertItems(pkg_dicts, package_ids, harvest_private_datasets) ==
    IF pkg_dicts = << >> THEN << >>
    ELSE LET p == Head(pkg_dicts) IN
         IF p.private /\ ~harvest_private_datasets
         THEN DataPressUpsertItems(Tail(pkg_dicts), package_ids, harvest_private_datasets)
         ELSE IF p.id \in package_ids
         THEN DataPressUpsertItems(Tail(pkg_dicts), package_ids, harvest_private_datasets)
         ELSE << Item(p, "upsert") >>
              \o DataPressUpsertItems(Tail(pkg_dicts), package_ids \cup {p.id},
                                      harvest_private_datasets)

\* fetch: how the package list request of _fetch_packages ended. No call in it
\* raises ContentFetchError, so a failed request (requests' ConnectionError, a
\* body that is no JSON, the failed assert on "success") leaves gather_stage as
\* an exception.
DataPress_gather_stage(fetch, pkg_dicts, harvest_private_datasets, cat) ==
    IF fetch # "ok" THEN GatherOut(TRUE, NoneVal, 0, << >>)
    ELSE IF pkg_dicts = << >> THEN GatherOut(FALSE, "[]", 1, << >>)
    ELSE LET fetched_ids == IdsOf(pkg_dicts)
             existing_dataset_ids == get_harvested_dataset_ids(cat)
         IN  GatherOut(FALSE, "object_ids", 0,
                       DataPressUpsertItems(pkg_dicts, {}, harvest_private_datasets)
                       \o DeleteItems(to_be_deleted(existing_dataset_ids, fetched_ids)))

\* ------------------------------------------------------- Redbridge gather
\* One HarvestObject per entry, in order, with no "action" key in its content.
RECURSIVE PlainItems(_)
PlainItems(pkg_dicts) ==
    IF pkg_dicts = << >> THEN << >>
    ELSE << Item(Head(pkg_dicts), Missing) >> \o PlainItems(Tail(pkg_dicts))

\* first: how the request for the category list ended (a response that is no
\* category list fails in xmltodict.parse or the key lookups after it); lost: the
\* positions of the datasets whose category or schema request failed with a
\* ConnectionError.
Redbridge_gather_stage(first, listing, lost, cat) ==
    IF first = "connection_error" THEN GatherOut(FALSE, "[]", 1, << >>)
    ELSE IF first # "ok" THEN GatherOut(TRUE, NoneVal, 0, << >>)
    ELSE LET pkg_dicts == Without(listing, lost, 1)
             fetched_ids == IdsOf(pkg_dicts)
             existing_dataset_ids == get_harvested_dataset_ids(cat)
         IN  GatherOut(FALSE, "object_ids", Cardinality(lost),
                       PlainItems(pkg_dicts)
                       \o DeleteItems(to_be_deleted(existing_dataset_ids, fetched_ids)))

\* ------------------------------------------------------------ SODA gather
RECURSIVE SODAItems(_, _)
SODAItems(catalog_entries, existing_ids) ==
    IF catalog_entries = << >> THEN << >>
    ELSE LET d == Head(catalog_entries) IN
         << Item(d, IF d.id \in existing_ids THEN "update" ELSE "create") >>
         \o SODAItems(Tail(catalog_entries), existing_ids)

\* first: how the catalog request ended (the listing fits one page of batch_size).
SODA_gather_stage(first, datasets, cat) ==
    IF first = "connection_error" THEN GatherOut(TRUE, NoneVal, 0, << >>)
    ELSE IF first # "ok" THEN GatherOut(FALSE, NoneVal, 1, << >>)
    ELSE LET source_ds_ids == IdsOf(datasets)
             existing_ids == get_harvested_dataset_ids(cat)
             deleted_ids == to_be_deleted(existing_ids, source_ds_ids)
         IN  GatherOut(FALSE, "object_ids", 0,
                       SODAItems(datasets, existing_ids) \o DeleteItems(deleted_ids))

\* ----------------------------------------------------------- Nomis gather
\* boroughs: how _get_borough_ids ended ("missing": the select box lacks a
\* required borough; otherwise its own error is followed by that of the count
\* check); lost: the datasets of boroughs whose page or topic list could not be
\* read (the loop goes on); bad: some _extract_dataset returned None, and the
\* _save_gather_error call that follows lacks its harvest_job argument.
Nomis_gather_stage(boroughs, listing, lost, bad) ==
    IF boroughs # "ok"
    THEN GatherOut(FALSE, NoneVal, IF boroughs = "missing" THEN 1 ELSE 2, << >>)
    ELSE IF bad THEN GatherOut(TRUE, NoneVal, Cardinality(lost) + 1, << >>)
    ELSE GatherOut(FALSE, "object_ids", Cardinality(lost),
                   PlainItems(Without(listing, lost, 1)))

\* ------------------------------------------------- organisations (mixins)
\* The organisations are looked up by id or by name.
OrgNames == {"gla", "remote", "remote-new"}

OrgIdOf(name) ==
    IF name = "gla" THEN "id-gla" ELSE IF name = "remote" THEN "id-remote" ELSE "id-remote-new"

Org(name) == [id |-> OrgIdOf(name), name |-> name]

organization_show(os, ref) == { o \in os : o.id = ref \/ o.name = ref }

canonicalise_org_to_name(os, org_name_or_id) ==
    IF organization_show(os, org_name_or_id) # {}
    THEN (CHOOSE o \in organization_show(os, org_name_or_id) : TRUE).name
    ELSE org_name_or_id

\* PROVIDER_ORG_MAPPINGS as read from organisation_mappings.csv: the row of
\* (provider, original id) with its "Override ID" as name and its "Override
\* Title" as title, or NoRow. The redbridge row has an empty title cell.
NoRow == [name |-> NoneVal, title |-> NoneVal]

PROVIDER_ORG_MAPPINGS(source_name, org_name) ==
    IF source_name = "datapress" /\ org_name = "remote"
    THEN [name |-> "remote-new", title |-> "Remote New"]
    ELSE IF source_name = "redbridge" /\ org_name = "remote"
    THEN [name |-> "remote-new", title |-> ""]
    ELSE NoRow

\* The keys get_mapped_organization pops from the organisation it creates.
PoppedKeys ==
    {"packages", "created", "users", "groups", "tags", "extras", "display_name", "type"}

\* package_dict.get("organization"): the upstream organisation of the payload
\* with the keys it carries, and package_dict.get("org_name").
UpstreamOrgKeys ==
    {"id", "name", "title", "description", "packages", "created", "users", "groups",
     "tags", "extras", "display_name", "type"}
NoOrgPayload ==
    [present |-> FALSE, id |-> "", name |-> "", title |-> "", keys |-> {},
     org_name |-> Missing]
OrgPayload(name) ==
    [present |-> TRUE, id |-> OrgIdOf(name), name |-> name, title |-> "Remote",
     keys |-> UpstreamOrgKeys, org_name |-> Missing]

\* The lookup that never consults the override table.
LookupOrganization_unmapped(os, source_name, organization_id) ==
    LET org_name == canonicalise_org_to_name(os, organization_id)
    IN  [org_name |-> org_name, mapped_org |-> NoRow, data_dict |-> org_name,
         found |-> organization_show(os, org_name)]

\* Lines 44-58: the canonical name, the override row and the name the catalog
\* is asked for, with the organisations organization_show finds.
LookupOrganization(os, source_name, organization_id) ==
    LET org_name == canonicalise_org_to_name(os, organization_id)
        mapped_org == PROVIDER_ORG_MAPPINGS(source_name, org_name)
        data_dict == IF mapped_org # NoRow THEN mapped_org.name ELSE org_name
    IN  [org_name |-> org_name, mapped_org |-> mapped_org, data_dict |-> data_dict,
         found |-> organization_show(os, data_dict)]

\* The return that hands back the name looked up for a missing organisation.
ValidatedOrg_lookedup(look, organization_id) ==
    IF look.found # {} THEN (CHOOSE o \in look.found : TRUE).id ELSE look.data_dict

\* Lines 59 and 98: what the call returns without creating: the id of the
\* organisation found, or the reference it was given.
ValidatedOrg(look, organization_id) ==
    IF look.found # {} THEN (CHOOSE o \in look.found : TRUE).id ELSE organization_id

\* The pop of lines 74-84 that keeps every key.
PopKeys_none(ks) == ks

PopKeys(ks) == ks \ PoppedKeys

\* Lines 64-89: the dict handed to organization_create. id is Missing when the
\* dict has no "id"; extras is << >> when it has no "extras".
NewOrganization(look, package_org, org_link) ==
    LET org == IF package_org.present
               THEN [id |-> package_org.id, name |-> package_org.name,
                     title |-> package_org.title, keys |-> package_org.keys]
               ELSE [id |-> Missing, name |-> look.org_name,
                     title |-> IF package_org.org_name # Missing
                               THEN package_org.org_name ELSE look.org_name,
                     keys |-> {"name", "title"}]
        mapped_org == look.mapped_org
        title == IF mapped_org = NoRow THEN org.title
                 ELSE IF mapped_org.title # "" THEN mapped_org.title ELSE mapped_org.name
        name == IF mapped_org = NoRow THEN org.name ELSE mapped_org.name
        ks == PopKeys(org.keys \cup IF mapped_org = NoRow THEN {} ELSE {"title", "name"})
    IN  [id |-> org.id, name |-> name, title |-> title,
         keys |-> IF org_link # NoneVal THEN ks \cup {"extras"} ELSE ks,
         extras |-> IF org_link # NoneVal THEN << Extra("Website", org_link) >>
                    ELSE << >>]

\* No dict: organization_create was not called.
NoOrg == [id |-> Missing, name |-> NoneVal, title |-> NoneVal, keys |-> {}, extras |-> << >>]

\* organization_create: refused when create_ok is false or when the name or the
\* id is taken; the new organisation keeps the id of the dict when it has one.
organization_create(os, org, create_ok) ==
    LET new_id == IF org.id # Missing THEN org.id
                  ELSE IF org.name \in OrgNames THEN OrgIdOf(org.name) ELSE org.name
        clash == \E o \in os : o.id = new_id \/ o.name = org.name
    IN  IF create_ok /\ ~clash
        THEN [raised |-> FALSE, id |-> new_id,
              orgs |-> os \cup {[id |-> new_id, name |-> org.name]}]
        ELSE [raised |-> TRUE, id |-> NoneVal, orgs |-> os]

\* Returns what the call returned, whether it raised, the name it looked up, the
\* dict passed to organization_create (NoOrg: not called) and the organisations
\* after. create_ok: organization_create accepts the payload.
get_mapped_organization(os, source_name, organization_id, remote_orgs, package_org, org_link, create_ok) ==
    LET look == LookupOrganization(os, source_name, organization_id)
        org == NewOrganization(look, package_org, org_link)
        new_org == organization_create(os, org, create_ok)
    IN  IF look.found = {} /\ remote_orgs = "create"
        THEN [raised |-> new_org.raised, validated_org |-> new_org.id,
              lookup |-> look.data_dict, created |-> org, orgs |-> new_org.orgs]
        ELSE [raised |-> FALSE, validated_org |-> ValidatedOrg(look, organization_id),
              lookup |-> look.data_dict, created |-> NoOrg, orgs |-> os]

\* The arguments of a call: the harvest source, the reference, the remote_orgs
\* setting, the organisation of the payload and the link.
OrgCall(source_name, organization_id, remote_orgs, package_org, org_link, create_ok) ==
    [source_name |-> source_name, organization_id |-> organization_id,
     remote_orgs |-> remote_orgs, package_org |-> package_org, org_link |-> org_link,
     create_ok |-> create_ok]
NoCall == OrgCall(NoneVal, NoneVal, NoneVal, NoOrgPayload, NoneVal, TRUE)

\* ------------------------------------------ _create_or_update_package
\* A catalog call: its name, the dataset id and the extras of the record passed.
\* state: the "state" of that record (Missing: it has no such key).
Call(fn, id, extras) == [fn |-> fn, id |-> id, extras |-> extras, state |-> Missing]

HasDuplicateKeys(extras) ==
    \E i, j \in 1..Len(extras) : i < j /\ extras[i].key = extras[j].key

\* The package dict of an import: mm is its "metadata_modified" (0: no such key),
\* named: it has a "name", ver: the version of the upstream content it carries.
\* It has no "state" unless the harvester puts one.
PackageDict(id, extras, mm, named, ver) ==
    [id |-> id, extras |-> extras, mm |-> mm, named |-> named, ver |-> ver,
     state |-> Missing]

\* The package dict with "state" set.
WithState(pkg, state) == [pkg EXCEPT !.state = state]

ImportOut(r, res, errs, cs, cat, os) ==
    [raised |-> r, result |-> res, object_errors |-> errs, calls |-> cs,
     catalog |-> cat, orgs |-> os]

\* HarvesterBase._create_or_update_package as the harvesters rely on it: a package
\* that exists is updated only when the dict has no metadata_modified or a later
\* one than the stored package; the catalog rejects duplicate extras keys and a
\* new package without a name; a rejection or a failed lookup is recorded against
\* the object. The catalog stamps what it writes with the time of the write.
create_or_update_package(cat, os, pkg, lookup_ok, reject, now, errs, cs) ==
    LET old == cat[pkg.id]
        record(fn) == [Call(fn, pkg.id, pkg.extras) EXCEPT !.state = pkg.state]
        handed == Append(cs, record("create_or_update"))
        invalid == reject \/ HasDuplicateKeys(pkg.extras)
        stored == [exists |-> TRUE, extras |-> pkg.extras, metadata_modified |-> now,
                   ver |-> pkg.ver,
                   state |-> IF pkg.state # Missing THEN pkg.state
                             ELSE IF old.exists THEN old.state ELSE "active"]
    IN  IF ~lookup_ok THEN ImportOut(FALSE, NoneVal, errs + 1, handed, cat, os)
        ELSE IF ~old.exists
        THEN IF invalid \/ ~pkg.named
             THEN ImportOut(FALSE, NoneVal, errs + 1, handed, cat, os)
             ELSE ImportOut(FALSE, "True", errs,
                            Append(handed, record("package_create")),
                            [cat EXCEPT ![pkg.id] = stored], os)
        ELSE IF pkg.mm = 0 \/ pkg.mm > old.metadata_modified
        THEN IF invalid
             THEN ImportOut(FALSE, NoneVal, errs + 1, handed, cat, os)
             ELSE ImportOut(FALSE, "True", errs,
                            Append(handed, record("package_update")),
                            [cat EXCEPT ![pkg.id] = stored], os)
        ELSE ImportOut(FALSE, "unchanged", errs, handed, cat, os)

\* toolkit.get_action("dataset_purge"): NotFound for an id the catalog lacks.
PurgeOk(cat, id, purge_ok) == purge_ok /\ cat[id].exists

\* --------------------------------------------------- inputs of an import
\* What the collaborators do during one import_stage call: lookup_ok: package_show
\* of the dataset answers (with the package or NotFound) instead of failing;
\* source_ok: the harvest source and its organisation can be read; purge_ok:
\* dataset_purge succeeds; create_ok: organization_create accepts; reject: the
\* catalog's validation rejects the record. At most one of them fails in a call,
\* and one that fails does so for the whole call.
Faults == {"none", "lookup", "source", "purge", "create", "reject"}

Env(f) ==
    [lookup_ok |-> f # "lookup", source_ok |-> f # "source",
     purge_ok |-> f # "purge", create_ok |-> f # "create",
     reject |-> f = "reject"]

Config(private, defaults, override, remote) ==
    [harvest_private_datasets |-> private, default_extras |-> defaults,
     override_extras |-> override, remote_orgs |-> remote]

\* The harvest source configurations a stage may read with _set_config.
Configs(k) ==
    IF k = "datapress"
    THEN { Config(FALSE, << >>, FALSE, NoneVal),
           Config(TRUE, << >>, FALSE, NoneVal),
           Config(FALSE, << Extra("data_quality", "2") >>, FALSE, NoneVal),
           Config(FALSE, << Extra("data_quality", "2") >>, TRUE, NoneVal),
           Config(FALSE, << Extra("upstream_url", "cfg") >>, FALSE, NoneVal),
           Config(FALSE, << >>, FALSE, "only_local"),
           Config(FALSE, << >>, FALSE, "create") }
    ELSE IF k = "nomis"
    THEN { Config(FALSE, << >>, FALSE, NoneVal) }
    ELSE { Config(FALSE, << >>, FALSE, NoneVal),
           Config(FALSE, << >>, FALSE, "create") }

NoConfig ==
    [harvest_private_datasets |-> FALSE, default_extras |-> << >>,
     override_extras |-> FALSE, remote_orgs |-> NoneVal]

UrlOf(id) == IF id = 1 THEN "url1" ELSE IF id = 2 THEN "url2" ELSE IF id = 3 THEN "url3" ELSE "url4"

\* harvest_object.source.frequency
Frequency == "WEEKLY"

PurgeCall(id) == Call("dataset_purge", id, << >>)

\* ------------------------------------------------------ DataPress import
EXTRA_PKG_FIELDS == << "london_smallest_geography", "update_frequency" >>

\* unprocessed_dataset_dict.get(field) of the content of version ver: the first
\* version of a record carries neither field.
PayloadField(ver, field) ==
    IF ver < 2 THEN NoneVal
    ELSE IF field = "london_smallest_geography" THEN "borough" ELSE "monthly"

RemoveFirst(extras, key) ==
    LET i == IndexOfKey(extras, key)
    IN  SubSeq(extras, 1, i - 1) \o SubSeq(extras, i + 1, Len(extras))

\* The default_extras loop of import_stage.
RECURSIVE ApplyDefaultExtras(_, _, _)
ApplyDefaultExtras(extras, default_extras, override_extras) ==
    IF default_extras = << >> THEN extras
    ELSE LET d == Head(default_extras)
             existing_extra == HasKey(extras, d.key)
         IN  IF existing_extra /\ ~override_extras
             THEN ApplyDefaultExtras(extras, Tail(default_extras), override_extras)
             ELSE ApplyDefaultExtras(
                      Append(IF existing_extra THEN RemoveFirst(extras, d.key) ELSE extras, d),
                      Tail(default_extras), override_extras)

\* The three provenance extras import_stage appends.
DataPressProvenance(id, ver) ==
    << Extra("upstream_url", UrlOf(id)),
       Extra("upstream_metadata_modified", Stamp(ver)),
       Extra("upstream_metadata_created", Stamp(ver)) >>

RECURSIVE AppendPkgFields(_, _, _)
AppendPkgFields(extras, ver, fields) ==
    IF fields = << >> THEN extras
    ELSE AppendPkgFields(
             IF PayloadField(ver, Head(fields)) # NoneVal
             THEN Append(extras, Extra(Head(fields), PayloadField(ver, Head(fields))))
             ELSE extras,
             ver, Tail(fields))

\* modify_package_dict: the extra package fields are appended and
\* metadata_modified becomes the current time.
modify_package_dict(pkg, ver, now) ==
    [pkg EXCEPT !.extras = AppendPkgFields(pkg.extras, ver, EXTRA_PKG_FIELDS), !.mm = now]

\* The extras of the package dict import_stage hands on.
DataPressExtras(it, cfg, existing, lookup_ok) ==
    LET e0 == << >>
        e1 == ApplyDefaultExtras(e0, cfg.default_extras, cfg.override_extras)
        e2 == add_existing_extras(e1, existing, lookup_ok)
        e3 == add_default_extras(e2)
    IN  e3 \o DataPressProvenance(it.id, it.ver)

DataPress_import_stage(it, cfg, env, cat, os, now) ==
    IF it.action = "delete"
    THEN IF PurgeOk(cat, it.id, env.purge_ok)
         THEN ImportOut(FALSE, "True", 0, << PurgeCall(it.id) >>,
                        [cat EXCEPT ![it.id] = NoPkg], os)
         ELSE ImportOut(FALSE, NoneVal, 1, << PurgeCall(it.id) >>, cat, os)
    ELSE IF ~env.source_ok THEN ImportOut(FALSE, NoneVal, 1, << >>, cat, os)
    ELSE LET m == IF cfg.remote_orgs \notin {"only_local", "create"}
                  THEN get_mapped_organization(os, "datapress", OrgIdOf("gla"),
                                               cfg.remote_orgs, OrgPayload("remote"),
                                               NoneVal, env.create_ok)
                  ELSE get_mapped_organization(os, "datapress", OrgIdOf("remote"),
                                               cfg.remote_orgs, OrgPayload("remote"),
                                               NoneVal, env.create_ok)
         IN  IF m.raised THEN ImportOut(FALSE, NoneVal, 1, << >>, cat, os)
             ELSE create_or_update_package(
                      cat, m.orgs,
                      modify_package_dict(
                          PackageDict(it.id,
                                      DataPressExtras(it, cfg, cat[it.id], env.lookup_ok),
                                      it.ver, TRUE, it.ver),
                          it.ver, now),
                      env.lookup_ok, env.reject, now, 0, << >>)

\* ------------------------------------------------------ Redbridge import
\* The first try block records a failed purge and falls through to the second.
\* env.source_ok: the statements of the second block up to the organisation
\* mapping (package_show of the source, self.config.get, org["name"]) pass.
Redbridge_import_stage(it, cfg, env, cat, os, now) ==
    LET purge == it.action = "delete"
        errs0 == IF purge THEN 1 ELSE 0
        cs0 == IF purge THEN << PurgeCall(it.id) >> ELSE << >>
    IN  IF purge /\ PurgeOk(cat, it.id, env.purge_ok)
        THEN ImportOut(FALSE, "True", 0, cs0, [cat EXCEPT ![it.id] = NoPkg], os)
        ELSE IF ~env.source_ok THEN ImportOut(FALSE, NoneVal, errs0 + 1, cs0, cat, os)
        ELSE LET m == get_mapped_organization(os, "redbridge", "gla", cfg.remote_orgs,
                                              NoOrgPayload, NoneVal, env.create_ok)
                 e1 == add_existing_extras(<< >>, cat[it.id], env.lookup_ok)
                 e2 == add_default_extras(e1)
                 e3 == upsert_package_extra(e2, "harvest_source_frequency", Frequency)
             IN  IF m.raised THEN ImportOut(FALSE, NoneVal, errs0 + 1, cs0, cat, os)
                 ELSE create_or_update_package(
                          cat, m.orgs, PackageDict(it.id, e3, it.ver, it.ver # 0, it.ver),
                          env.lookup_ok, env.reject, now, errs0, cs0)

\* ----------------------------------------------------------- SODA import
\* create_organisations, a boolean, is what import_stage passes as remote_orgs.
SODACreateOrganisations(cfg) == IF cfg.remote_orgs = "create" THEN "True" ELSE "False"

SODA_import_stage(it, cfg, env, cat, os, now) ==
    IF it.action = "delete"
    THEN IF PurgeOk(cat, it.id, env.purge_ok)
         THEN ImportOut(FALSE, "True", 0, << PurgeCall(it.id) >>,
                        [cat EXCEPT ![it.id] = NoPkg], os)
         ELSE ImportOut(FALSE, "False", 1, << PurgeCall(it.id) >>, cat, os)
    ELSE IF it.action = "create"
    THEN IF SODACreateOrganisations(cfg) # "True" /\ ~env.source_ok
         THEN ImportOut(FALSE, NoneVal, 1, << >>, cat, os)
         ELSE LET m == IF SODACreateOrganisations(cfg) = "True"
                       THEN get_mapped_organization(os, "soda", "remote",
                                SODACreateOrganisations(cfg), NoOrgPayload,
                                "https://remote", env.create_ok)
                       ELSE get_mapped_organization(os, "soda", "gla",
                                SODACreateOrganisations(cfg), NoOrgPayload,
                                NoneVal, env.create_ok)
                  e1 == add_default_extras(<< >>)
                  e2 == upsert_package_extra(e1, "harvest_source_frequency", Frequency)
              IN  IF m.raised THEN ImportOut(FALSE, NoneVal, 1, << >>, cat, os)
                  ELSE create_or_update_package(
                           cat, m.orgs,
                           WithState(PackageDict(it.id, e2, 0, TRUE, it.ver), "active"),
                           env.lookup_ok, env.reject, now, 0, << >>)
    ELSE IF it.action = "update"
    THEN IF ~env.lookup_ok \/ ~cat[it.id].exists
         THEN ImportOut(FALSE, NoneVal, 1, << >>, cat, os)
         ELSE IF get_package_extra_val(cat[it.id].extras, "content_hash") = Digest(it.ver)
         THEN ImportOut(FALSE, "unchanged", 0, << >>, cat, os)
         ELSE LET e1 == add_existing_extras(cat[it.id].extras, cat[it.id], env.lookup_ok)
                  e2 == upsert_package_extra(e1, "content_hash", Digest(it.ver))
                  e3 == upsert_package_extra(e2, "harvest_source_frequency", Frequency)
              IN  create_or_update_package(
                      cat, os,
                      WithState(PackageDict(it.id, e3, cat[it.id].metadata_modified,
                                            TRUE, it.ver), "active"),
                      env.lookup_ok, env.reject, now, 0, << >>)
    ELSE ImportOut(FALSE, NoneVal, 0, << >>, cat, os)

\* ---------------------------------------------------------- Nomis import
\* An import that never compares the content hashes.
Nomis_import_stage_nocheck(it, env, cat, os, now) ==
    IF ~env.lookup_ok THEN ImportOut(TRUE, NoneVal, 0, << >>, cat, os)
    ELSE IF ~env.source_ok THEN ImportOut(FALSE, NoneVal, 1, << >>, cat, os)
    ELSE create_or_update_package(
             cat, os,
             WithState(PackageDict(it.id,
                                   upsert_package_extra(cat[it.id].extras, "content_hash",
                                                        Digest(it.ver)),
                                   now, TRUE, it.ver), cat[it.id].state),
             env.lookup_ok, env.reject, now, 0, << >>)

\* Only ObjectNotFound is caught around the first package_show.
Nomis_import_stage(it, env, cat, os, now) ==
    IF ~env.lookup_ok THEN ImportOut(TRUE, NoneVal, 0, << >>, cat, os)
    ELSE IF cat[it.id].exists
            /\ get_package_extra_val(cat[it.id].extras, "content_hash") = Digest(it.ver)
    THEN ImportOut(FALSE, "unchanged", 0, << >>, cat, os)
    ELSE IF ~env.source_ok THEN ImportOut(FALSE, NoneVal, 1, << >>, cat, os)
    ELSE LET e0 == cat[it.id].extras
             e1 == IF get_package_extra_val(e0, "data_quality") = NoneVal
                   THEN Append(e0, Extra("data_quality", ""))
                   ELSE e0
             e2 == upsert_package_extra(e1, "content_hash", Digest(it.ver))
         IN  create_or_update_package(
                 cat, os,
                 WithState(PackageDict(it.id, e2, now, TRUE, it.ver), cat[it.id].state),
                 env.lookup_ok, env.reject, now, 0, << >>)

\* ------------------------------------------------------------ behaviours
\* A package harvested by an earlier job and curated since: an editor has set its
\* data_quality, and it carries the upstream_url stored with it. It was last
\* modified at the time of the first upstream stamp.
Curated ==
    [exists |-> TRUE,
     extras |-> << Extra("data_quality", "5"), Extra("upstream_url", "old") >>,
     metadata_modified |-> 1, ver |-> 0, state |-> "active"]

\* The same package deleted locally since.
Deleted == [Curated EXCEPT !.state = "deleted"]

NoItem == [id |-> 0, action |-> Missing, private |-> FALSE, ver |-> 0]

Init ==
    /\ kind \in Sources
    /\ catalog \in [Ids -> {NoPkg, Curated, Deleted}]
    /\ orgs = {Org("gla")}
    /\ objects = << >>
    /\ done = 0
    /\ clock = 0
    /\ op = "init"
    /\ raised = FALSE
    /\ result = NoneVal
    /\ calls = << >>
    /\ fault = "none"
    /\ request = NoneVal
    /\ gather_errors = 0
    /\ object_errors = 0
    /\ fetched = << >>
    /\ upstream = << >>
    /\ local_ids = {}
    /\ item = NoItem
    /\ before = NoPkg
    /\ config = NoConfig
    /\ arg = << >>
    /\ ret = << >>
    /\ call = NoCall
    /\ harvests = << >>
    /\ created = << >>
    /\ overlapped = FALSE

\* How the first request of a gather stage ends: with the listing, with a
\* connection failure, or with a response that is not a success.
Requests == {"ok", "connection_error", "bad_response"}

\* The configurations that differ in what a gather stage reads.
GatherConfigs(k) ==
    { c \in Configs(k) : c.default_extras = << >> /\ ~c.override_extras
                         /\ c.remote_orgs = NoneVal }

\* A gather stage ran on listing (of which it retrieved got) and ended as out.
GatherDone(first, listing, got, cfg, out) ==
    /\ op' = "gather"
    /\ request' = first
    /\ fault' = "none"
    /\ objects' = out.objects
    /\ done' = 0
    /\ raised' = out.raised
    /\ result' = out.result
    /\ gather_errors' = out.gather_errors
    /\ object_errors' = 0
    /\ calls' = << >>
    /\ fetched' = got
    /\ upstream' = listing
    /\ local_ids' = get_harvested_dataset_ids(catalog)
    /\ config' = cfg
    /\ item' = NoItem
    /\ before' = NoPkg
    /\ UNCHANGED << kind, catalog, orgs, clock, arg, ret >>
    /\ UNCHANGED orgvars

\* A job is gathered once the objects of the previous one are imported (and while
\* the behaviour has an import left to follow it).
CanGather(k) == kind = k /\ done = Len(objects) /\ clock < MaxClock

DataPressGather ==
    /\ CanGather("datapress")
    /\ \E fetch \in Requests,
          listing \in Listings("datapress"), cfg \in GatherConfigs("datapress") :
          /\ fetch # "ok" => listing = << >>
          /\ GatherDone(fetch, listing, listing, cfg,
                 DataPress_gather_stage(fetch, listing, cfg.harvest_private_datasets, catalog))

RedbridgeGather ==
    /\ CanGather("redbridge")
    /\ \E first \in Requests,
          listing \in Listings("redbridge"), cfg \in GatherConfigs("redbridge") :
          \E lost \in SUBSET (1..Len(listing)) :
             /\ first # "ok" => listing = << >>
             /\ GatherDone(first, listing, Without(listing, lost, 1), cfg,
                    Redbridge_gather_stage(first, listing, lost, catalog))

SODAGather ==
    /\ CanGather("soda")
    /\ \E first \in Requests,
          listing \in Listings("soda"), cfg \in GatherConfigs("soda") :
          /\ first # "ok" => listing = << >>
          /\ GatherDone(first, listing, listing, cfg,
                        SODA_gather_stage(first, listing, catalog))

NomisGather ==
    /\ CanGather("nomis")
    /\ \E boroughs \in Requests \cup {"missing"},
          listing \in Listings("nomis"), bad \in BOOLEAN, cfg \in GatherConfigs("nomis") :
          \E lost \in SUBSET (1..Len(listing)) :
             /\ boroughs # "ok" => listing = << >> /\ ~bad
             /\ GatherDone(boroughs, listing, Without(listing, lost, 1), cfg,
                    Nomis_gather_stage(boroughs, listing, lost, bad))

\* An import stage ran on the next object under cfg and ended as out.
ImportDone(cfg, f, out) ==
    /\ op' = "import"
    /\ fault' = f
    /\ item' = objects[done + 1]
    /\ before' = catalog[objects[done + 1].id]
    /\ done' = done + 1
    /\ clock' = clock + 1
    /\ raised' = out.raised
    /\ result' = out.result
    /\ object_errors' = out.object_errors
    /\ calls' = out.calls
    /\ catalog' = out.catalog
    /\ orgs' = out.orgs
    /\ config' = cfg
    /\ UNCHANGED << kind, objects, request, gather_errors, fetched, upstream, local_ids,
                    arg, ret >>
    /\ UNCHANGED orgvars

\* datetime.now() at the c-th import: every stamp an upstream record carries lies
\* before the first import of the behaviour.
Now(c) == MaxVer + c

CanImport(k) == kind = k /\ done < Len(objects) /\ clock < MaxClock

DataPressImport ==
    /\ CanImport("datapress")
    /\ \E cfg \in Configs("datapress"), f \in Faults :
          ImportDone(cfg, f, DataPress_import_stage(objects[done + 1], cfg, Env(f),
                                                    catalog, orgs, Now(clock + 1)))

RedbridgeImport ==
    /\ CanImport("redbridge")
    /\ \E cfg \in Configs("redbridge"), f \in Faults :
          ImportDone(cfg, f, Redbridge_import_stage(objects[done + 1], cfg, Env(f),
                                                    catalog, orgs, Now(clock + 1)))

SODAImport ==
    /\ CanImport("soda")
    /\ \E cfg \in Configs("soda"), f \in Faults :
          ImportDone(cfg, f, SODA_import_stage(objects[done + 1], cfg, Env(f),
                                               catalog, orgs, Now(clock + 1)))

NomisImport ==
    /\ CanImport("nomis")
    /\ \E cfg \in Configs("nomis"), f \in Faults :
          ImportDone(cfg, f, Nomis_import_stage(objects[done + 1], Env(f),
                                                catalog, orgs, Now(clock + 1)))

Next ==
    \/ DataPressGather
    \/ RedbridgeGather
    \/ SODAGather
    \/ NomisGather
    \/ DataPressImport
    \/ RedbridgeImport
    \/ SODAImport
    \/ NomisImport

Spec == Init /\ [][Next]_vars

\* ------------------------------------------- the util helpers on their own
\* The extras lists a helper is given: every entry has a key, its value may be
\* None.
MaxExtras == 2
ExtrasKeys == {"data_quality", "dataset_boost", "notes"}
ExtrasValues == {NoneVal, "", "5"}
ExtrasLists == BoundedSeq([key : ExtrasKeys, value : ExtrasValues], MaxExtras)

InitUtil ==
    /\ kind = "datapress"
    /\ catalog = [i \in Ids |-> NoPkg]
    /\ orgs = {Org("gla")}
    /\ objects = << >>
    /\ done = 0
    /\ clock = 0
    /\ op = "init"
    /\ raised = FALSE
    /\ result = NoneVal
    /\ calls = << >>
    /\ fault = "none"
    /\ request = NoneVal
    /\ gather_errors = 0
    /\ object_errors = 0
    /\ fetched = << >>
    /\ upstream = << >>
    /\ local_ids = {}
    /\ item = NoItem
    /\ before = NoPkg
    /\ config = NoConfig
    /\ arg \in ExtrasLists
    /\ ret = << >>
    /\ call = NoCall
    /\ harvests = << >>
    /\ created = << >>
    /\ overlapped = FALSE

\* add_default_extras(pkg_dict) on a package whose extras are arg.
AddDefaultExtras ==
    /\ op = "init"
    /\ op' = "add_default_extras"
    /\ ret' = add_default_extras(arg)
    /\ UNCHANGED << kind, catalog, orgs, objects, done, clock, raised, result, calls,
                    fault, request, gather_errors, object_errors, fetched, upstream,
                    local_ids, item, before, config, arg >>
    /\ UNCHANGED orgvars

NextUtil == AddDefaultExtras

SpecUtil == InitUtil /\ [][NextUtil]_vars

\* ------------------------------ get_mapped_organization called on its own
\* Harvests of one source resolve one organisation reference; a call is a lookup
\* followed, when the organisation is missing and remote_orgs is "create", by
\* organization_create as a second catalog request.
MaxHarvests == 2
Harvests == 1..MaxHarvests

OrgRefs == OrgNames \cup { OrgIdOf(n) : n \in OrgNames }
RemoteOrgs == {"create", "only_local", "True"}
OrgLinks == {NoneVal, "https://remote"}

\* The organisation of a payload is the one the reference names.
PackageOrgs(organization_id) ==
    {NoOrgPayload, [NoOrgPayload EXCEPT !.org_name = "Remote"]}
        \cup IF organization_id \in {"remote", OrgIdOf("remote")}
             THEN {OrgPayload("remote")} ELSE {}

OrgCalls ==
    { OrgCall(s, r, c, p, l, ok) :
        s \in Sources, r \in OrgRefs, c \in RemoteOrgs,
        p \in PackageOrgs("remote") , l \in OrgLinks, ok \in BOOLEAN }

NoLook == [org_name |-> NoneVal, mapped_org |-> NoRow, data_dict |-> NoneVal, found |-> {}]

\* A harvest before its call; seen: the organisations its lookup ran against.
Idle ==
    [pc |-> "start", look |-> NoLook, seen |-> {}, org |-> NoOrg, raised |-> FALSE,
     validated_org |-> NoneVal]

InitOrg ==
    /\ kind \in Sources
    /\ catalog = [i \in Ids |-> NoPkg]
    /\ orgs \in SUBSET { Org(n) : n \in OrgNames }
    /\ objects = << >>
    /\ done = 0
    /\ clock = 0
    /\ op = "init"
    /\ raised = FALSE
    /\ result = NoneVal
    /\ calls = << >>
    /\ fault = "none"
    /\ request = NoneVal
    /\ gather_errors = 0
    /\ object_errors = 0
    /\ fetched = << >>
    /\ upstream = << >>
    /\ local_ids = {}
    /\ item = NoItem
    /\ before = NoPkg
    /\ config = NoConfig
    /\ arg = << >>
    /\ ret = << >>
    /\ call \in { c \in OrgCalls :
                    /\ c.source_name = kind
                    /\ c.package_org \in PackageOrgs(c.organization_id) }
    /\ harvests = [h \in Harvests |-> Idle]
    /\ created = << >>
    /\ overlapped = FALSE

OrgUnchanged ==
    UNCHANGED << kind, catalog, objects, done, clock, raised, result, calls, fault,
                 request, gather_errors, object_errors, fetched, upstream, local_ids,
                 item, before, config, arg, ret, call >>

\* Lines 44-61 and 95-98 of harvest h: the lookup, and the return when the
\* organisation exists or is not to be created.
LookupOrg(h) ==
    /\ harvests[h].pc = "start"
    /\ LET look == LookupOrganization(orgs, call.source_name, call.organization_id)
           got == [harvests[h] EXCEPT !.look = look, !.seen = orgs]
       IN  harvests' =
             [harvests EXCEPT ![h] =
                IF look.found = {} /\ call.remote_orgs = "create"
                THEN [got EXCEPT !.pc = "create",
                                 !.org = NewOrganization(look, call.package_org,
                                                         call.org_link)]
                ELSE [got EXCEPT !.pc = "done",
                                 !.validated_org =
                                     ValidatedOrg(look, call.organization_id)]]
    /\ overlapped' = (overlapped \/ \E g \in Harvests : harvests[g].pc = "create")
    /\ op' = "lookup"
    /\ UNCHANGED << orgs, created >>
    /\ OrgUnchanged

\* Lines 91-94 of harvest h: organization_create and the return.
CreateOrg(h) ==
    /\ harvests[h].pc = "create"
    /\ LET new_org == organization_create(orgs, harvests[h].org, call.create_ok)
       IN  /\ orgs' = new_org.orgs
           /\ harvests' = [harvests EXCEPT ![h] =
                             [@ EXCEPT !.pc = "done", !.raised = new_org.raised,
                                       !.validated_org = new_org.id]]
    /\ created' = Append(created, [h |-> h, org |-> harvests[h].org])
    /\ op' = "create"
    /\ UNCHANGED overlapped
    /\ OrgUnchanged

NextOrg == \E h \in Harvests : LookupOrg(h) \/ CreateOrg(h)

SpecOrg == InitOrg /\ [][NextOrg]_vars

\* ------------------------------------------- strip_time_zone on its own
\* A string is the sequence of its characters.
Digits == {"0", "1", "2", "3", "4", "5", "6", "7", "8", "9"}

\* ([+-]\d\d:?(\d\d)?)$ matches the whole of t.
IsOffset(t) ==
    /\ Len(t) \in 3..6
    /\ t[1] \in {"+", "-"}
    /\ t[2] \in Digits
    /\ t[3] \in Digits
    /\ \/ Len(t) = 3
       \/ Len(t) = 4 /\ t[4] = ":"
       \/ Len(t) = 5 /\ t[4] \in Digits /\ t[5] \in Digits
       \/ Len(t) = 6 /\ t[4] = ":" /\ t[5] \in Digits /\ t[6] \in Digits

\* re.sub(r"Z|([+-]\d\d:?(\d\d)?)$", "", s) from position i of s on: every match
\* found scanning to the right is dropped.
RECURSIVE re_sub(_, _)
re_sub(s, i) ==
    IF i > Len(s) THEN << >>
    ELSE IF s[i] = "Z" THEN re_sub(s, i + 1)
    ELSE IF IsOffset(SubSeq(s, i, Len(s))) THEN << >>
    ELSE << s[i] >> \o re_sub(s, i + 1)

strip_time_zone(iso_timestamp) == re_sub(iso_timestamp, 1)

\* The timestamps of upstream records: a date, alone or with a time, a fraction
\* of a second and a designator.
Dates ==
    { << "2", "0", "2", "3", "-", "0", "6", "-", "2", "7" >>,
      << "2", "0", "2", "3", "-", "1", "1", "-", "0", "4" >>,
      << "1", "9", "9", "9", "-", "1", "2", "-", "3", "1" >> }
TimeOfDay == << "T", "1", "0", ":", "4", "5", ":", "5", "7" >>
Fractions == { << >>, << ".", "2", "8", "4" >>, << ".", "2", "8", "4", "0", "0", "0" >> }
Designators ==
    { << >>, << "Z" >>, << "+", "0", "1", ":", "0", "0" >>,
      << "-", "0", "1", ":", "0", "0" >>, << "+", "0", "1", "0", "0" >>,
      << "+", "0", "1" >> }
Timestamps ==
    Dates \cup { d \o TimeOfDay \o f \o z : d \in Dates, f \in Fractions, z \in Designators }

InitStrip ==
    /\ kind = "datapress"
    /\ catalog = [i \in Ids |-> NoPkg]
    /\ orgs = {Org("gla")}
    /\ objects = << >>
    /\ done = 0
    /\ clock = 0
    /\ op = "init"
    /\ raised = FALSE
    /\ result = NoneVal
    /\ calls = << >>
    /\ fault = "none"
    /\ request = NoneVal
    /\ gather_errors = 0
    /\ object_errors = 0
    /\ fetched = << >>
    /\ upstream = << >>
    /\ local_ids = {}
    /\ item = NoItem
    /\ before = NoPkg
    /\ config = NoConfig
    /\ arg \in Timestamps
    /\ ret = << >>
    /\ call = NoCall
    /\ harvests = << >>
    /\ created = << >>
    /\ overlapped = FALSE

PureUnchanged ==
    UNCHANGED << kind, catalog, orgs, objects, done, clock, raised, result, calls,
                 fault, request, gather_errors, object_errors, fetched, upstream,
                 local_ids, item, before, config, call, harvests, created, overlapped >>

\* strip_time_zone(arg).
StripTimeZone ==
    /\ op = "init"
    /\ op' = "strip_time_zone"
    /\ ret' = strip_time_zone(arg)
    /\ UNCHANGED arg
    /\ PureUnchanged

\* strip_time_zone applied to what it returned.
StripTimeZoneAgain ==
    /\ op = "strip_time_zone"
    /\ op' = "strip_time_zone again"
    /\ arg' = ret
    /\ ret' = strip_time_zone(ret)
    /\ PureUnchanged

NextStrip == StripTimeZone \/ StripTimeZoneAgain

SpecStrip == InitStrip /\ [][NextStrip]_vars

\* ---------------------------------- normalise_ckan_resources on its own
\* str.rjust that pads nothing.
rjust_none(str, width, fillchar) == str

RECURSIVE rjust(_, _, _)
rjust(str, width, fillchar) ==
    IF Len(str) >= width THEN str ELSE rjust(<< fillchar >> \o str, width, fillchar)

fixup_id(res) == [res EXCEPT !.id = rjust(res.id, 7, "0")]

MapFixup(resources) == [n \in 1..Len(resources) |-> fixup_id(resources[n])]

\* package_dict with its "resources" and the "resources" of its "organization";
\* the dicts of the list normalised are changed in place.
normalise_ckan_resources(package_dict) ==
    IF package_dict.resources = << >> /\ package_dict.organization_resources # << >>
    THEN [resources |-> MapFixup(package_dict.organization_resources),
          organization_resources |-> MapFixup(package_dict.organization_resources)]
    ELSE [package_dict EXCEPT !.resources = MapFixup(package_dict.resources)]

\* The resource ids of upstream records: the first characters of these words.
MaxIdLen == 8
IdWords ==
    { << "4", "2", "a", "b", "c", "d", "e", "f" >>,
      << "0", "0", "7", "x", "y", "z", "0", "1" >> }
ResourceIds == { SubSeq(w, 1, n) : w \in IdWords, n \in 1..MaxIdLen }
MaxResources == 2
Resources == BoundedSeq([id : ResourceIds, name : {"csv"}], MaxResources)
PackageDicts ==
    { [resources |-> r, organization_resources |-> << >>] : r \in Resources }
        \cup { [resources |-> << >>, organization_resources |-> r] : r \in Resources }

InitResources ==
    /\ kind = "datapress"
    /\ catalog = [i \in Ids |-> NoPkg]
    /\ orgs = {Org("gla")}
    /\ objects = << >>
    /\ done = 0
    /\ clock = 0
    /\ op = "init"
    /\ raised = FALSE
    /\ result = NoneVal
    /\ calls = << >>
    /\ fault = "none"
    /\ request = NoneVal
    /\ gather_errors = 0
    /\ object_errors = 0
    /\ fetched = << >>
    /\ upstream = << >>
    /\ local_ids = {}
    /\ item = NoItem
    /\ before = NoPkg
    /\ config = NoConfig
    /\ arg \in PackageDicts
    /\ ret = << >>
    /\ call = NoCall
    /\ harvests = << >>
    /\ created = << >>
    /\ overlapped = FALSE

\* normalise_ckan_resources(arg).
NormaliseResources ==
    /\ op = "init"
    /\ op' = "normalise_ckan_resources"
    /\ ret' = normalise_ckan_resources(arg)
    /\ UNCHANGED arg
    /\ PureUnchanged

\* normalise_ckan_resources on the package it has normalised.
NormaliseResourcesAgain ==
    /\ op = "normalise_ckan_resources"
    /\ op' = "normalise_ckan_resources again"
    /\ arg' = ret
    /\ ret' = normalise_ckan_resources(ret)
    /\ PureUnchanged

NextResources == NormaliseResources \/ NormaliseResourcesAgain

SpecResources == InitResources /\ [][NextResources]_vars

\* ------------------------------------------------ fixup_tag on its own
\* Nothing of the pipeline has run: the state around a function called on its
\* own, but for its argument.
NothingRun ==
    /\ kind = "datapress"
    /\ catalog = [i \in Ids |-> NoPkg]
    /\ orgs = {Org("gla")}
    /\ objects = << >>
    /\ done = 0
    /\ clock = 0
    /\ op = "init"
    /\ raised = FALSE
    /\ result = NoneVal
    /\ calls = << >>
    /\ fault = "none"
    /\ request = NoneVal
    /\ gather_errors = 0
    /\ object_errors = 0
    /\ fetched = << >>
    /\ upstream = << >>
    /\ local_ids = {}
    /\ item = NoItem
    /\ before = NoPkg
    /\ config = NoConfig
    /\ ret = << >>
    /\ call = NoCall
    /\ harvests = << >>
    /\ created = << >>
    /\ overlapped = FALSE

LowerCase ==
    {"a", "b", "c", "d", "e", "f", "g", "h", "i", "j", "k", "l", "m", "n", "o", "p", "q",
     "r", "s", "t", "u", "v", "w", "x", "y", "z"}
UpperCase ==
    {"A", "B", "C", "D", "E", "F", "G", "H", "I", "J", "K", "L", "M", "N", "O", "P", "Q",
     "R", "S", "T", "U", "V", "W", "X", "Y", "Z"}

\* The characters outside the class [^a-zA-Z0-9 \-_.].
TagClass == LowerCase \cup UpperCase \cup Digits \cup {" ", "-", "_", "."}

\* A fixup_tag that leaves the text as it is.
fixup_tag_asis(tag) == [name |-> tag]

\* re.sub("[^a-zA-Z0-9 \-_.]", "", tag): every character the class matches is
\* dropped.
fixup_tag(tag) == [name |-> SelectSeq(tag, LAMBDA c : c \in TagClass)]

\* list(map(fixup_tag, package_dict["tags"])), when the package has tags.
FixupTags(tags) ==
    IF tags = << >> THEN tags ELSE [n \in 1..Len(tags) |-> fixup_tag(tags[n])]

\* The tags of upstream packages: short texts over these characters, and Cafe!!
\* with an accented e.
MaxTagLen == 2
MaxTags == 2
TagChars == {"C", "a", "9", " ", "-", "_", ".", "!", "\\", "^", "e'"}
TagTexts == BoundedSeq(TagChars, MaxTagLen) \cup {<< "C", "a", "f", "e'", "!", "!" >>}
TagLists == BoundedSeq(TagTexts, MaxTags)

InitTags == NothingRun /\ arg \in TagLists

\* The tags step of _datapress_to_ckan on a package whose tags are arg.
SanitiseTags ==
    /\ op = "init"
    /\ op' = "fixup_tag"
    /\ ret' = FixupTags(arg)
    /\ UNCHANGED arg
    /\ PureUnchanged

NextTags == SanitiseTags

SpecTags == InitTags /\ [][NextTags]_vars

\* -------------------------------- the export's extra fields on their own
\* A resource object of export.json: its id and the values of
\* EXTRA_RESOURCE_FIELDS (Missing: the object has no such key).
EXTRA_RESOURCE_FIELDS == {"temporal_coverage_from", "temporal_coverage_to"}
ResourceIdsOfExport == {"r1", "r2"}
FieldValues == {Missing, "", "2020"}
ResObj(id, from, to) ==
    [id |-> id, temporal_coverage_from |-> from, temporal_coverage_to |-> to]
ResObjs == { ResObj(i, f, t) : i \in ResourceIdsOfExport, f \in FieldValues, t \in FieldValues }

\* has_value(v): v != None or v != '' holds for every v.
has_value(v) == v # NoneVal \/ v # ""

\* No two entries share an id.
DistinctIds(rs) == \A i, j \in 1..Len(rs) : i # j => rs[i].id # rs[j].id

\* Lines 334-347: the first isinstance test. A list of resource objects becomes
\* a list of one-entry dicts {res_id: res_obj}, and stays a list.
NormalisedExport(package_dict) ==
    IF package_dict.shape = "list"
    THEN [shape |-> "list", resources |-> package_dict.resources]
    ELSE package_dict

\* Lines 350-358: the second isinstance test. resources_extras: the resource
\* objects of a dict that have one of the fields, by id; for anything but a dict
\* nothing is collected and lookup holds no "resources" for the package.
ResourcesExtras(package_dict) ==
    LET normalised == NormalisedExport(package_dict)
    IN  IF normalised.shape = "dict"
        THEN { normalised.resources[n] : n \in
                 { m \in 1..Len(normalised.resources) :
                     \/ /\ normalised.resources[m].temporal_coverage_from # Missing
                        /\ has_value(normalised.resources[m].temporal_coverage_from)
                     \/ /\ normalised.resources[m].temporal_coverage_to # Missing
                        /\ has_value(normalised.resources[m].temporal_coverage_to) } }
        ELSE {}

\* resource_obj.update(extra_resource_fields[res_id]): the fields present are set.
UpdateResource(resource_obj, fields) ==
    [resource_obj EXCEPT
        !.temporal_coverage_from =
            IF fields.temporal_coverage_from # Missing
            THEN fields.temporal_coverage_from ELSE @,
        !.temporal_coverage_to =
            IF fields.temporal_coverage_to # Missing THEN fields.temporal_coverage_to ELSE @]

\* Lines 400-408 of _fetch_packages on one dataset: its resources after the
\* extra fields of the export were merged in.
MergeExtraFields(resources, package_dict) ==
    LET extra_resource_fields == ResourcesExtras(package_dict)
    IN  [n \in 1..Len(resources) |->
            IF \E e \in extra_resource_fields : e.id = resources[n].id
            THEN UpdateResource(resources[n],
                                CHOOSE e \in extra_resource_fields : e.id = resources[n].id)
            ELSE resources[n]]

\* A dataset of the package list with its export entry: the resources of the
\* export as a list or as a dict by id, and the resources listed.
MaxExport == 2
ExportPackages ==
    { [shape |-> sh, resources |-> rs] :
        sh \in {"list", "dict"},
        rs \in { r \in BoundedSeq(ResObjs, MaxExport) : DistinctIds(r) } }
ListedResources ==
    { r \in BoundedSeq({ ResObj(i, Missing, Missing) : i \in ResourceIdsOfExport }, MaxExport) :
        DistinctIds(r) }

InitExport ==
    /\ NothingRun
    /\ arg \in { [export |-> e, resources |-> r] : e \in ExportPackages, r \in ListedResources }

\* _fetch_packages on the dataset arg.
FetchPackages ==
    /\ op = "init"
    /\ op' = "_fetch_packages"
    /\ ret' = MergeExtraFields(arg.resources, arg.export)
    /\ UNCHANGED arg
    /\ PureUnchanged

NextExport == FetchPackages

SpecExport == InitExport /\ [][NextExport]_vars

\* ------------------------------------------- validate_config on its own
\* A DataPress source configuration as validate_config reads it. An option is
\* "absent", "valid", or invalid in one of the ways the checks tell apart;
\* a filter key is present or not; remote_orgs and remote_groups hold their
\* value or "absent".
FilterKeys ==
    {"organizations_filter_include", "organizations_filter_exclude",
     "groups_filter_include", "groups_filter_exclude"}
CheckedOptions ==
    {"api_version", "default_tags", "default_groups", "default_extras", "user",
     "read_only", "datapress_api_key", "harvest_private_datasets"}
OptionStates(o) ==
    {"absent", "valid"} \cup
    IF o = "api_version" THEN {"not an integer", "null"}
    ELSE IF o = "default_tags" THEN {"not a list", "not dicts"}
    ELSE IF o = "default_groups" THEN {"not a list", "not strings", "not found"}
    ELSE IF o = "user" THEN {"not found"}
    ELSE {"wrong type"}
RemoteValues == {"absent", "only_local", "create", "all"}

\* The options of a configuration: none is set, or all are and at most one of
\* them is invalid.
AllOptions(v) == [o \in CheckedOptions |-> v]
OptionSettings ==
    {AllOptions("absent"), AllOptions("valid")} \cup
    UNION { { [AllOptions("valid") EXCEPT ![o] = v] :
                v \in OptionStates(o) \ {"absent", "valid"} } : o \in CheckedOptions }

SourceConfigs ==
    [options : OptionSettings, filters : SUBSET FilterKeys,
     remote_orgs : RemoteValues, remote_groups : RemoteValues,
     default_group_dicts : {FALSE}]

\* What validate_config does: the error it raises (NoneVal: none) and the
\* configuration it returns.
Validated(error, config_obj) == [error |-> error, config |-> config_obj]

\* A validate_config without the two checks of the filter keys.
FiltersError_none(filters) == NoneVal

\* Lines 136-152: the error of a configuration with both keys of a pair.
FiltersError(filters) ==
    IF {"organizations_filter_include", "organizations_filter_exclude"} \subseteq filters
    THEN "cannot contain both organizations_filter_include and organizations_filter_exclude"
    ELSE IF {"groups_filter_include", "groups_filter_exclude"} \subseteq filters
    THEN "cannot contain both groups_filter_include and groups_filter_exclude"
    ELSE NoneVal

\* The checks in the order of the code; the first that fails raises. int(None)
\* raises a TypeError, which escapes like the ValueErrors.
validate_config(config_obj) ==
    LET o == config_obj.options
        with_groups == IF o["default_groups"] = "valid"
                       THEN [config_obj EXCEPT !.default_group_dicts = TRUE] ELSE config_obj
    IN  IF o["api_version"] = "not an integer"
        THEN Validated("api_version must be an integer", config_obj)
        ELSE IF o["api_version"] = "null" THEN Validated("TypeError", config_obj)
        ELSE IF o["default_tags"] = "not a list"
        THEN Validated("default_tags must be a list", config_obj)
        ELSE IF o["default_tags"] = "not dicts"
        THEN Validated("default_tags must be a list of dictionaries", config_obj)
        ELSE IF o["default_groups"] = "not a list"
        THEN Validated("default_groups must be a *list* of group names/ids", config_obj)
        ELSE IF o["default_groups"] = "not strings"
        THEN Validated("default_groups must be a list of group names/ids (i.e. strings)",
                       config_obj)
        ELSE IF o["default_groups"] = "not found"
        THEN Validated("Default group not found", config_obj)
        ELSE IF o["default_extras"] = "wrong type"
        THEN Validated("default_extras must be a dictionary", config_obj)
        ELSE IF FiltersError(config_obj.filters) # NoneVal
        THEN Validated(FiltersError(config_obj.filters), config_obj)
        ELSE IF o["user"] = "not found" THEN Validated("User not found", config_obj)
        ELSE IF o["read_only"] = "wrong type"
        THEN Validated("read_only must be boolean", config_obj)
        ELSE IF o["datapress_api_key"] = "wrong type"
        THEN Validated("datapress_api_key must be string", config_obj)
        ELSE IF o["harvest_private_datasets"] = "wrong type"
        THEN Validated("harvest_private_datasets must be boolean", config_obj)
        ELSE Validated(NoneVal, with_groups)

InitConfig == NothingRun /\ arg \in SourceConfigs

\* validate_config(arg) when a harvest source is saved.
ValidateConfig ==
    /\ op = "init"
    /\ op' = "validate_config"
    /\ ret' = validate_config(arg)
    /\ UNCHANGED arg
    /\ PureUnchanged

NextConfig == ValidateConfig

SpecConfig == InitConfig /\ [][NextConfig]_vars

\* ------------------------------------- the SODA catalog pagination loop
\* batch_size is 100 in the source; the model pages by a smaller number.
batch_size == 2
MaxTotal == 3

\* The upstream catalog: the resultSetSize it announces and the records it has.
SodaCatalogs == [resultSetSize : 0..MaxTotal, results : BoundedSeq(Ids, MaxTotal)]

\* The records a request with limit lim and offset offset returns.
PageOf(records, offset, lim) ==
    IF offset >= Len(records) THEN << >>
    ELSE SubSeq(records, offset + 1, IF offset + lim < Len(records) THEN offset + lim ELSE Len(records))

\* Every offset from MaxOffset on is beyond the last record and returns the
\* empty page: past MaxOffset + batch_size, start_index starts again at MaxOffset.
MaxOffset == MaxTotal + batch_size
NextOffset(start_index) ==
    IF start_index + batch_size > MaxOffset + batch_size THEN MaxOffset ELSE start_index + batch_size

\* The locals of gather_stage before the loop; announced is FALSE while
\* total_num_results is float("inf").
SodaLocals == [datasets |-> << >>, start_index |-> 0, announced |-> FALSE, total_num_results |-> 0]

\* len(datasets) < total_num_results
SodaLoopCondition(locals) ==
    ~locals.announced \/ Len(locals.datasets) < locals.total_num_results

\* One pass of the loop body on a response that is ok and holds page.
SodaLoopBody(locals, resultSetSize, page) ==
    [datasets |-> locals.datasets \o page,
     start_index |-> NextOffset(locals.start_index),
     announced |-> TRUE,
     total_num_results |-> IF locals.announced THEN locals.total_num_results ELSE resultSetSize]

InitSodaPages == NothingRun /\ arg \in SodaCatalogs

PagesUnchanged ==
    UNCHANGED << kind, catalog, orgs, objects, done, clock, raised, calls, fault, request,
                 object_errors, fetched, upstream, local_ids, item, before, config, arg,
                 call, harvests, created, overlapped >>

\* gather_stage up to the loop.
SodaStart ==
    /\ op = "init"
    /\ op' = "soda_loop"
    /\ ret' = SodaLocals
    /\ UNCHANGED << result, gather_errors >>
    /\ PagesUnchanged

\* One request of the loop: the response is not ok, or it is ok and holds the
\* page at start_index or an empty page.
SodaRequest ==
    /\ op = "soda_loop"
    /\ SodaLoopCondition(ret)
    /\ \E ok \in BOOLEAN :
       \E page \in {PageOf(arg.results, ret.start_index, batch_size), << >>} :
          IF ok
          THEN /\ ret' = SodaLoopBody(ret, arg.resultSetSize, page)
               /\ UNCHANGED << op, result, gather_errors >>
          ELSE /\ op' = "soda_return"
               /\ result' = NoneVal
               /\ gather_errors' = gather_errors + 1
               /\ UNCHANGED ret
    /\ PagesUnchanged

\* The loop condition fails: gather_stage goes on to convert the datasets.
SodaLoopEnd ==
    /\ op = "soda_loop"
    /\ ~SodaLoopCondition(ret)
    /\ op' = "soda_convert"
    /\ UNCHANGED << ret, result, gather_errors >>
    /\ PagesUnchanged

NextSodaPages == SodaStart \/ SodaRequest \/ SodaLoopEnd

\* Every request returns and gather_stage keeps running.
SpecSodaPages == InitSodaPages /\ [][NextSodaPages]_vars /\ WF_vars(NextSodaPages)

\* --------------------------- the paging loop of get_harvested_dataset_ids
\* limit is 1000 in the source; the model pages by a smaller number.
limit == 2
MaxHeld == 3

\* What the catalog search holds for the harvest source: dataset ids in result
\* order, each once.
HeldIds == 1..MaxHeld
SearchIndexes == { held \in BoundedSeq(HeldIds, MaxHeld) : \A m, n \in 1..Len(held) : held[m] = held[n] => m = n }

harvester_search_dict(page, rows) == [rows |-> rows, start |-> (page - 1) * rows]

\* package_search on the index held: the number of matches and the rows asked for.
package_search(held, search_dict) ==
    [count |-> Len(held), results |-> PageOf(held, search_dict.start, search_dict.rows)]

\* Every page from MaxPage on starts beyond the last match and is empty: past
\* MaxPage + 1, page starts again at MaxPage.
MaxPage == MaxHeld + 1
NextPage(page) == IF page + 1 > MaxPage + 1 THEN MaxPage ELSE page + 1

InitSearchPages == NothingRun /\ arg \in SearchIndexes

SearchUnchanged ==
    UNCHANGED << kind, catalog, orgs, objects, done, clock, raised, result, calls, fault,
                 request, gather_errors, object_errors, fetched, upstream, local_ids, item,
                 before, config, call, harvests, created, overlapped >>

\* The first query: page 1, whose count is kept for the loop condition.
SearchFirst ==
    /\ op = "init"
    /\ op' = "search_loop"
    /\ LET query_result == package_search(arg, harvester_search_dict(1, limit))
       IN ret' = [page |-> 1, count |-> query_result.count, datasets |-> query_result.results, returned |-> {}]
    /\ UNCHANGED arg
    /\ SearchUnchanged

\* One pass of the loop: the next page is appended.
SearchNext ==
    /\ op = "search_loop"
    /\ Len(ret.datasets) < ret.count
    /\ LET page == NextPage(ret.page)
       IN ret' = [ret EXCEPT !.page = page, !.datasets = @ \o package_search(arg, harvester_search_dict(page, limit)).results]
    /\ UNCHANGED << op, arg >>
    /\ SearchUnchanged

\* The loop condition fails: the set of the ids read is returned.
SearchReturn ==
    /\ op = "search_loop"
    /\ ~(Len(ret.datasets) < ret.count)
    /\ op' = "search_return"
    /\ ret' = [ret EXCEPT !.returned = { ret.datasets[n] : n \in 1..Len(ret.datasets) }]
    /\ UNCHANGED arg
    /\ SearchUnchanged

\* Another process removes a dataset of the source between two page requests.
RemoveDataset ==
    /\ op = "search_loop"
    /\ \E n \in 1..Len(arg) : arg' = SubSeq(arg, 1, n - 1) \o SubSeq(arg, n + 1, Len(arg))
    /\ UNCHANGED << op, ret >>
    /\ SearchUnchanged

SearchStep == SearchFirst \/ SearchNext \/ SearchReturn

NextSearchPages == SearchStep \/ RemoveDataset

\* Every package_search call returns and the function keeps running; removals
\* happen or not.
SpecSearchPages == InitSearchPages /\ [][NextSearchPages]_vars /\ WF_vars(SearchStep)

\* ================================================================ claims
\* How many delete work items objs holds for id i.
DeleteCount(objs, i) ==
    Cardinality({ n \in 1..Len(objs) : objs[n].action = "delete" /\ objs[n].id = i })

\* A gather stage of a harvester that diffs against the catalog has run and its
\* listing request was answered.
GatheredListing ==
    op = "gather" /\ kind \in {"datapress", "redbridge", "soda"} /\ request = "ok"

DeletesAreTheDifference ==
    \A i \in Ids :
        DeleteCount(objects, i) = IF i \in local_ids \ IdsOf(fetched) THEN 1 ELSE 0

\* C1 as stated: after the DataPress, Redbridge or SODA gather stage, for every
\* fetched listing and every set of existing local ids, exactly the ids in
\* existing_ids minus fetched_ids have a delete work item, one each.
C1_AsStated == GatheredListing => DeletesAreTheDifference

\* C1: after the Redbridge or SODA gather stage, and after the DataPress gather
\* stage when the fetched list is not empty, exactly the ids in existing_ids minus
\* fetched_ids have a delete work item, one each; a DataPress gather stage whose
\* fetched list is empty creates no work item at all.
C1_DeleteItemsAreDifference ==
    GatheredListing =>
        IF kind = "datapress" /\ fetched = << >>
        THEN objects = << >>
        ELSE DeletesAreTheDifference

\* A gather run in which one local id is still upstream and another is not.
C1_Witness ==
    /\ GatheredListing
    /\ fetched # << >>
    /\ \E i \in local_ids \ IdsOf(fetched) : DeleteCount(objects, i) = 1
    /\ \E j \in local_ids \cap IdsOf(fetched) : DeleteCount(objects, j) = 0

\* The records of the fetched list a gather stage turns into upsert items: the
\* DataPress stage discards private datasets unless configured to harvest them.
Kept(recs) ==
    SelectSeq(recs, LAMBDA p : ~(kind = "datapress" /\ p.private
                                   /\ ~config.harvest_private_datasets))

RECURSIVE FirstOccurrences(_, _)
FirstOccurrences(recs, seen) ==
    IF recs = << >> THEN << >>
    ELSE IF Head(recs).id \in seen THEN FirstOccurrences(Tail(recs), seen)
    ELSE << Head(recs) >> \o FirstOccurrences(Tail(recs), seen \cup {Head(recs).id})

\* The record an upsert work item was built from.
RecordOf(it) == [id |-> it.id, private |-> it.private, ver |-> it.ver]

UpsertRecords(objs) ==
    LET ups == SelectSeq(objs, LAMBDA it : it.action # "delete")
    IN  [n \in 1..Len(ups) |-> RecordOf(ups[n])]

\* C2 as stated: after every gather stage that created its work items, the upsert
\* items are the first occurrences of the ids of the fetched list, one item per
\* id, in encounter order; later occurrences of an id yield no item.
C2_AsStated ==
    (op = "gather" /\ result = "object_ids") =>
        UpsertRecords(objects) = FirstOccurrences(Kept(fetched), {})

\* The catalog writes among the calls of the last stage.
Writes == SelectSeq(calls, LAMBDA c : c.fn \in {"package_create", "package_update"})

\* The records the last stage handed to _create_or_update_package.
Handed == SelectSeq(calls, LAMBDA c : c.fn = "create_or_update")

\* An upsert import ran on an item for a dataset the catalog held.
Reharvested == op = "import" /\ item.action # "delete" /\ before.exists

\* The job holds one work item for the id of the item imported last.
OnlyItemOfItsId ==
    Cardinality({ n \in 1..Len(objects) : objects[n].id = item.id }) = 1

\* C3 as stated: for every source, when an earlier run wrote the record from the
\* same upstream version and nothing fails, the import of the record performs no
\* catalog write, leaves the stored package as it is and returns "unchanged".
C3_AsStated ==
    (Reharvested /\ before.ver = item.ver /\ OnlyItemOfItsId /\ fault = "none") =>
        /\ result = "unchanged"
        /\ Writes = << >>
        /\ catalog[item.id] = before

\* C4 as stated: no record an import stage hands to the catalog's create/update
\* holds a key twice in its extras.
C4_AsStated ==
    op = "import" => \A n \in 1..Len(Handed) : ~HasDuplicateKeys(Handed[n].extras)

\* The extras keys an import computes anew for the record it writes.
RunKeys == remove_from_extras \cup {"content_hash", "harvest_source_frequency"}

KeyCount(extras, key) == Cardinality({ n \in 1..Len(extras) : extras[n].key = key })

\* C5 as stated: when an upsert import re-harvests a dataset the catalog holds,
\* every record it writes holds each stored extra whose key is neither volatile
\* nor computed by the run, once and with the stored value, whether or not the
\* default_extras of the source define the key.
C5_AsStated ==
    Reharvested =>
        \A n \in 1..Len(Writes), m \in 1..Len(before.extras) :
            before.extras[m].key \notin RunKeys =>
                /\ KeyCount(Writes[n].extras, before.extras[m].key) = 1
                /\ get_package_extra_val(Writes[n].extras, before.extras[m].key)
                       = before.extras[m].value

\* C6 as stated: when an upsert import re-harvests a dataset stored with an
\* upstream_url extra, every upstream_url extra of a record it writes holds the
\* value of the current run, never the stored one.
C6_AsStated ==
    (Reharvested /\ HasKey(before.extras, "upstream_url")) =>
        \A n \in 1..Len(Writes) :
            \A m \in 1..Len(Writes[n].extras) :
                Writes[n].extras[m].key = "upstream_url" =>
                    Writes[n].extras[m].value = UrlOf(item.id)

\* C7 as stated: add_default_extras, given extras without a repeated key, keeps
\* every entry it was given where it was, and returns extras with exactly one
\* data_quality and exactly one dataset_boost entry, a default being appended
\* only for a key the given extras lack.
C7_AsStated ==
    (op = "add_default_extras" /\ ~HasDuplicateKeys(arg)) =>
        /\ Len(ret) >= Len(arg)
        /\ SubSeq(ret, 1, Len(arg)) = arg
        /\ KeyCount(ret, "data_quality") = 1
        /\ KeyCount(ret, "dataset_boost") = 1
        /\ \A n \in (Len(arg) + 1)..Len(ret) : ~HasKey(arg, ret[n].key)

\* C8 as stated: an import stage never lets an exception escape, and an import
\* that ends in neither a success nor "unchanged" has recorded an object error.
C8_AsStated ==
    op = "import" =>
        /\ ~raised
        /\ result \notin {"True", "unchanged"} => object_errors >= 1

C10_AsStated ==
    (op = "gather" /\ request \in {"connection_error", "bad_response"}) =>
        /\ ~raised
        /\ gather_errors >= 1
        /\ objects = << >>

\* C11 as stated: a gather stage whose listing request is answered with zero
\* records records a gather error and creates no work item, so no delete item
\* for any dataset harvested earlier.
C11_AsStated ==
    (op = "gather" /\ request = "ok" /\ upstream = << >>) =>
        /\ ~raised
        /\ gather_errors >= 1
        /\ objects = << >>

\* A Nomis or SODA import ran, with no fault, on an item for a dataset the catalog
\* held; the stored content_hash is that of the item or not.
HashChecked == Reharvested /\ kind \in {"nomis", "soda"} /\ fault = "none"

StoredHashMatches == get_package_extra_val(before.extras, "content_hash") = Digest(item.ver)

HashShortCircuit ==
    IF StoredHashMatches
    THEN result = "unchanged" /\ calls = << >> /\ catalog[item.id] = before
    ELSE /\ Len(Handed) = 1
         /\ KeyCount(Handed[1].extras, "content_hash") = 1
         /\ get_package_extra_val(Handed[1].extras, "content_hash") = Digest(item.ver)

LookedUp == { h \in Harvests : harvests[h].pc # "start" }

\* The canonical name of the reference of the call among the organisations os.
CanonicalName(os) ==
    IF \E o \in os : call.organization_id \in {o.id, o.name}
    THEN (CHOOSE o \in os : call.organization_id \in {o.id, o.name}).name
    ELSE call.organization_id

\* The override row of the harvest source for that name, or NoRow.
Override(os) == PROVIDER_ORG_MAPPINGS(call.source_name, CanonicalName(os))

\* C13: get_mapped_organization asks the catalog for the override name when the
\* override table has a row for the harvest source and the canonical name of the
\* reference, and for the canonical name when it has none.
C13_LookupUsesOverride ==
    \A h \in LookedUp :
        harvests[h].look.data_dict =
            IF Override(harvests[h].seen) # NoRow
            THEN Override(harvests[h].seen).name
            ELSE CanonicalName(harvests[h].seen)

C13_Witness ==
    \E h \in LookedUp :
        /\ call.source_name = "datapress"
        /\ call.organization_id = "remote"
        /\ harvests[h].look.data_dict = "remote-new"

\* The harvests whose call has returned or raised.
Returned == { h \in Harvests : harvests[h].pc = "done" }

\* C14: when the lookup finds nothing and remote_orgs is not "create", the call
\* returns the reference it was given and creates no organisation, also when an
\* override row exists.
C14_ReferenceReturnedUnchanged ==
    \A h \in Returned :
        (harvests[h].look.found = {} /\ call.remote_orgs # "create") =>
            /\ ~harvests[h].raised
            /\ harvests[h].validated_org = call.organization_id
            /\ created = << >>
            /\ orgs = harvests[h].seen

C14_Witness ==
    \E h \in Returned :
        /\ harvests[h].look.found = {}
        /\ call.remote_orgs # "create"
        /\ harvests[h].look.mapped_org # NoRow
        /\ call.organization_id # harvests[h].look.data_dict
        /\ harvests[h].validated_org = call.organization_id

\* The keys the catalog manages itself which a created organisation must not carry.
ServerManagedKeys ==
    {"packages", "created", "users", "groups", "tags", "display_name", "type"}

\* The dict of the n-th organization_create has no server-managed key, and its
\* extras are the one Website entry of the link, or absent without a link.
StrippedAndLinked(n) ==
    /\ created[n].org.keys \cap ServerManagedKeys = {}
    /\ IF call.org_link # NoneVal
       THEN /\ "extras" \in created[n].org.keys
            /\ created[n].org.extras = << Extra("Website", call.org_link) >>
       ELSE /\ "extras" \notin created[n].org.keys
            /\ created[n].org.extras = << >>

\* The override row the harvest of the n-th organization_create had found.
OverrideOf(n) == harvests[created[n].h].look.mapped_org

\* C15 as stated: the dict passed to organization_create has none of the
\* server-managed keys, its name and title are those of the override row when
\* one fired, and its extras are exactly the Website entry of the link.
C15_AsStated ==
    \A n \in 1..Len(created) :
        /\ StrippedAndLinked(n)
        /\ OverrideOf(n) # NoRow =>
               (/\ created[n].org.name = OverrideOf(n).name
                /\ created[n].org.title = OverrideOf(n).title)

\* C15: the same, the title being the override title, or the override name when
\* the row has an empty title.
C15_CreatedOrganisation ==
    \A n \in 1..Len(created) :
        /\ StrippedAndLinked(n)
        /\ OverrideOf(n) # NoRow =>
               (/\ created[n].org.name = OverrideOf(n).name
                /\ created[n].org.title =
                       IF OverrideOf(n).title # "" THEN OverrideOf(n).title
                       ELSE OverrideOf(n).name)

C15_Witness ==
    \E n \in 1..Len(created) :
        /\ call.package_org.present
        /\ call.org_link # NoneVal
        /\ OverrideOf(n) # NoRow
        /\ created[n].org.title = "Remote New"
        /\ created[n].org.extras = << Extra("Website", call.org_link) >>

\* The harvests that found the organisation missing and went on to create it.
Creating == { h \in Harvests : harvests[h].org # NoOrg }

\* C16 as stated: when the harvests all find the organisation missing and try to
\* create it, every call returns the id of the one organisation created.
C16_AsStated ==
    (Returned = Harvests /\ Creating = Harvests /\ call.create_ok) =>
        /\ \A h \in Harvests : ~harvests[h].raised
        /\ \A g, h \in Harvests : harvests[g].validated_org = harvests[h].validated_org

\* C17 as stated: calls made one after the other for one source and one
\* reference return the same organisation id and call organization_create at
\* most once, never after a lookup that found the organisation.
C17_AsStated ==
    (Returned = Harvests /\ ~overlapped /\ call.create_ok) =>
        /\ \A h \in Harvests : ~harvests[h].raised
        /\ \A g, h \in Harvests : harvests[g].validated_org = harvests[h].validated_org
        /\ Len(created) <= 1
        /\ \A n \in 1..Len(created) : harvests[created[n].h].look.found = {}

\* C18 as stated: no record an upsert import hands to create/update has a state
\* field, and re-harvesting a dataset deleted locally leaves it deleted.
C18_AsStated ==
    (op = "import" /\ item.action # "delete") =>
        /\ \A n \in 1..Len(Handed) : Handed[n].state = Missing
        /\ (before.exists /\ before.state = "deleted") =>
               catalog[item.id].state = "deleted"

\* The last characters of a string.
Tail_n(str, n) == SubSeq(str, Len(str) - n + 1, Len(str))

\* The length of the trailing designator of a timestamp: Z, or after a time of
\* day an offset of hours, or of hours and minutes with or without a colon.
DesignatorLen(str) ==
    IF Len(str) >= 1 /\ str[Len(str)] = "Z" THEN 1
    ELSE IF \E n \in 3..6 :
                /\ Len(str) > 10 + n
                /\ IsOffset(Tail_n(str, n))
    THEN CHOOSE n \in 3..6 : Len(str) > 10 + n /\ IsOffset(Tail_n(str, n))
    ELSE 0

WithoutDesignator(str) == SubSeq(str, 1, Len(str) - DesignatorLen(str))

Date20230627 == CHOOSE d \in Dates : d[4] = "3" /\ d[6] = "0"

\* C19 as stated: strip_time_zone removes the trailing designator and nothing
\* else, so a date-only value comes back unchanged; stripping twice is stripping
\* once; and 2023-06-27T10:45:57.284Z stripped equals 2023-06-27T10:45:57.284000.
C19_AsStated ==
    /\ op = "strip_time_zone" => ret = WithoutDesignator(arg)
    /\ op = "strip_time_zone again" => ret = arg
    /\ (op = "strip_time_zone"
         /\ arg = Date20230627 \o TimeOfDay \o << ".", "2", "8", "4", "Z" >>) =>
            ret = Date20230627 \o TimeOfDay \o << ".", "2", "8", "4", "0", "0", "0" >>

\* The list normalise_ckan_resources works on: the resources of the package, or
\* those of its organisation when the package has none.
Normalised(package_dict) ==
    IF package_dict.resources = << >> THEN package_dict.organization_resources
    ELSE package_dict.resources

Zeros(n) == [k \in 1..n |-> "0"]

\* C20: normalise_ckan_resources pads every resource id shorter than 7
\* characters with zeros on the left to 7 characters, leaves the longer ids as
\* they are and keeps the number and the order of the resources; applied again
\* it changes nothing.
C20_PadsShortIds ==
    /\ op = "normalise_ckan_resources" =>
         /\ Len(ret.resources) = Len(Normalised(arg))
         /\ \A n \in 1..Len(ret.resources) :
              LET id == Normalised(arg)[n].id
              IN  /\ ret.resources[n].name = Normalised(arg)[n].name
                  /\ ret.resources[n].id =
                       IF Len(id) < 7 THEN Zeros(7 - Len(id)) \o id ELSE id
    /\ op = "normalise_ckan_resources again" => ret = arg

C20_Witness ==
    /\ op = "normalise_ckan_resources"
    /\ Len(arg.resources) = 2
    /\ arg.resources[1].id = << "4", "2" >>
    /\ ret.resources[1].id = << "0", "0", "0", "0", "0", "4", "2" >>
    /\ Len(arg.resources[2].id) = 8
    /\ ret.resources[2].id = arg.resources[2].id

\* The characters a sanitised tag may hold: letters, digits, space, dash,
\* underscore and period.
AllowedInTags(c) == c \in LowerCase \cup UpperCase \cup Digits \cup {" ", "-", "_", "."}

\* The position in text of its k-th allowed character.
AllowedAt(text, k) ==
    CHOOSE i \in 1..Len(text) :
        /\ AllowedInTags(text[i])
        /\ Cardinality({ j \in 1..i : AllowedInTags(text[j]) }) = k

\* C21: the tags step maps every tag text to its allowed characters in their
\* order: the disallowed ones are deleted, no allowed one is deleted or altered
\* and nothing is inserted.
C21_TagsKeepAllowedCharacters ==
    op = "fixup_tag" =>
        /\ Len(ret) = Len(arg)
        /\ \A n \in 1..Len(arg) :
              /\ Len(ret[n].name) =
                     Cardinality({ i \in 1..Len(arg[n]) : AllowedInTags(arg[n][i]) })
              /\ \A k \in 1..Len(ret[n].name) :
                     ret[n].name[k] = arg[n][AllowedAt(arg[n], k)]

C21_Witness ==
    /\ op = "fixup_tag"
    /\ \E n \in 1..Len(arg) :
          /\ arg[n] = << "C", "a", "f", "e'", "!", "!" >>
          /\ ret[n].name = << "C", "a", "f" >>

\* The value the export gives field f of the resource with this id (Missing:
\* none), whatever the shape of its resources.
ExportedValue(id, f) ==
    IF \E n \in 1..Len(arg.export.resources) : arg.export.resources[n].id = id
    THEN (CHOOSE r \in { arg.export.resources[n] : n \in 1..Len(arg.export.resources) } :
              r.id = id)[f]
    ELSE Missing

\* C22 as stated: every listed resource gets the temporal coverage fields the
\* export holds for its id, whether the export gives the resources as a list or
\* as a dict by id.
C22_AsStated ==
    op = "_fetch_packages" =>
        /\ Len(ret) = Len(arg.resources)
        /\ \A n \in 1..Len(ret) :
              /\ ret[n].id = arg.resources[n].id
              /\ \A f \in EXTRA_RESOURCE_FIELDS : ret[n][f] = ExportedValue(ret[n].id, f)

\* C23 as stated: a Nomis gather that lacks a borough id, a borough page, a
\* topic list or a dataset records a gather error and produces no work item.
C23_AsStated ==
    (op = "gather" /\ kind = "nomis" /\ (request # "ok" \/ fetched # upstream \/ raised)) =>
        /\ gather_errors >= 1
        /\ objects = << >>

\* The configuration holds both keys of a pair of filters.
BothOfAPair(config_obj) ==
    \/ /\ "organizations_filter_include" \in config_obj.filters
       /\ "organizations_filter_exclude" \in config_obj.filters
    \/ /\ "groups_filter_include" \in config_obj.filters
       /\ "groups_filter_exclude" \in config_obj.filters

OtherOptionsValid(config_obj) ==
    \A o \in CheckedOptions : config_obj.options[o] \in {"absent", "valid"}

\* C24: validate_config raises for every configuration with both keys of a pair
\* of filters, and returns the configuration without error when each pair has
\* at most one key and the other options are valid.
C24_FilterPairsExclusive ==
    op = "validate_config" =>
        /\ BothOfAPair(arg) => ret.error # NoneVal
        /\ (~BothOfAPair(arg) /\ OtherOptionsValid(arg)) =>
               /\ ret.error = NoneVal
               /\ ret.config.options = arg.options
               /\ ret.config.filters = arg.filters

C24_Witness ==
    /\ op = "validate_config"
    /\ arg.filters = {"groups_filter_include", "groups_filter_exclude"}
    /\ OtherOptionsValid(arg)
    /\ arg.options["default_groups"] = "valid"
    /\ ret.error # NoneVal

\* C25 as stated: validate_config raises for every configuration whose
\* remote_orgs or remote_groups is present with a value other than only_local
\* or create.
C25_AsStated ==
    (op = "validate_config"
       /\ \/ arg.remote_orgs \notin {"absent", "only_local", "create"}
          \/ arg.remote_groups \notin {"absent", "only_local", "create"}) =>
        ret.error # NoneVal

\* C26 as stated: a gather stage creates a delete item for an id only when it
\* retrieved the complete upstream listing and the listing lacks the id.
C26_AsStated ==
    op = "gather" =>
        \A n \in 1..Len(objects) :
            objects[n].action = "delete" =>
                /\ fetched = upstream
                /\ objects[n].id \notin IdsOf(upstream)

\* The ids with a delete item, and those with an item of any other action.
DeleteIds(objs) == { objs[n].id : n \in { m \in 1..Len(objs) : objs[m].action = "delete" } }
UpsertIds(objs) == { objs[n].id : n \in { m \in 1..Len(objs) : objs[m].action # "delete" } }

\* C27: among the work items of one gather run no id has both a delete item and
\* an upsert, create or update item.
C27_NoIdUpsertedAndDeleted ==
    op = "gather" => DeleteIds(objects) \cap UpsertIds(objects) = {}

C27_Witness ==
    /\ op = "gather"
    /\ kind \in {"datapress", "soda", "redbridge"}
    /\ DeleteIds(objects) # {}
    /\ UpsertIds(objects) # {}
    /\ UpsertIds(objects) \cap local_ids # {}

\* The DataPress gather stage has produced its work items.
DataPressGathered == op = "gather" /\ kind = "datapress" /\ result = "object_ids"

\* C28: without harvest_private_datasets a private upstream dataset gets neither
\* an upsert item nor a delete item, also when its id exists locally; with it the
\* id of a private dataset gets one upsert item and no delete item.
C28_PrivateDatasets ==
    DataPressGathered =>
        \A n \in 1..Len(upstream) :
            upstream[n].private =>
                /\ upstream[n].id \notin DeleteIds(objects)
                /\ IF config.harvest_private_datasets
                   THEN Cardinality({ m \in 1..Len(objects) :
                                        /\ objects[m].id = upstream[n].id
                                        /\ objects[m].action = "upsert" }) = 1
                   ELSE \A m \in 1..Len(objects) : ~objects[m].private

C28_Witness ==
    /\ DataPressGathered
    /\ ~config.harvest_private_datasets
    /\ \E n \in 1..Len(upstream) :
          /\ upstream[n].private
          /\ upstream[n].id \in local_ids
          /\ upstream[n].id \notin UpsertIds(objects) \cup DeleteIds(objects)
    /\ objects # << >>

\* The SODA pagination loop is over: gather_stage returned or left the loop.
SodaLoopOver == op \in {"soda_return", "soda_convert"}

\* C29: the SODA pagination loop terminates whatever the upstream returns, also
\* when it returns fewer records than the announced resultSetSize or an empty
\* page.
C29_AsStated == <>SodaLoopOver

\* C30: get_harvested_dataset_ids terminates, also when a page returns fewer
\* results than the count of the first query implies because a dataset was
\* removed between two page requests.
C30_AsStated == <>(op = "search_return")
====
